---- MODULE Spec2Model ----
(***************************************************************************)
(* Solar-PV detection pipeline: image acquisition with provider fallback   *)
(* and 3x3 tile stitching (utils.py), panel-area quantification            *)
(* (quantify.py), the QC decision (qc.py) and the per-location / batch     *)
(* driver (inference.py).                                                  *)
(*                                                                         *)
(* The module holds five state machines over disjoint variable groups.     *)
(* Each specification runs one of them and keeps the others idle:          *)
(*   SpecFetch  download_maptiler_static_sat and the three tile stitchers  *)
(*   SpecCrop   the crop window of a stitcher as a function of its inputs  *)
(*   SpecQuant  compute_selected_panel_area as a function of its inputs    *)
(*   SpecQC     qc_decision as a function of its inputs                    *)
(*   SpecBatch  run_inference_on_excel driving process_row                 *)
(***************************************************************************)
EXTENDS Integers, Sequences, FiniteSets, TLC

VARIABLES
    \* ---- acquisition (utils.py) ----
    loc,              \* target point, in pixels of the zoom-18 world map
    initial_zoom,     \* result of latlon_to_zoom_for_width
    google_api_key,   \* os.environ.get("GOOGLE_MAPS_API_KEY", "")
    fpc,              \* position inside download_maptiler_static_sat
    zoom,             \* loop variable of the Esri zoom loop
    attempts,         \* provider attempts started so far, in order
    outcomes,         \* outcome of each finished attempt, in order
    st,               \* the running 3x3 stitch
    fresult,          \* what the call handed to its caller
    \* ---- crop window of a stitcher (utils.py) ----
    crop_in, crop_out, cpc,
    \* ---- quantifier (quantify.py) ----
    q_in, q_out, qpc,
    \* ---- QC (qc.py) ----
    qc_in, qc_out, qcpc,
    \* ---- batch driver (inference.py) ----
    table,            \* the rows of the input file (df)
    results,          \* run_inference_on_excel.results
    predictions,      \* content of predictions.json, once written
    bpc,              \* position inside run_inference_on_excel
    row,              \* loop index and the locals of the running process_row
    rowlog            \* per finished row: what its process_row call did

fetchVars == <<loc, initial_zoom, google_api_key, fpc, zoom, attempts, outcomes,
               st, fresult>>
cropVars  == <<crop_in, crop_out, cpc>>
quantVars == <<q_in, q_out, qpc>>
qcVars    == <<qc_in, qc_out, qcpc>>
batchVars == <<table, results, predictions, bpc, row, rowlog>>
vars      == <<fetchVars, cropVars, quantVars, qcVars, batchVars>>

\* What each machine leaves alone.
notFetch == <<cropVars, quantVars, qcVars, batchVars>>
notCrop  == <<fetchVars, quantVars, qcVars, batchVars>>
notQuant == <<fetchVars, cropVars, qcVars, batchVars>>
notQC    == <<fetchVars, cropVars, quantVars, batchVars>>
notBatch == <<fetchVars, cropVars, quantVars, qcVars>>

Min(a, b) == IF a <= b THEN a ELSE b
Max(a, b) == IF a >= b THEN a ELSE b

RECURSIVE Pow2(_)
Pow2(n) == IF n = 0 THEN 1 ELSE 2 * Pow2(n - 1)

(***************************************************************************)
(* Acquisition: utils.py                                                   *)
(***************************************************************************)

\* The zoom clamp of latlon_to_zoom_for_width: max(0, min(18, ...)).
ZoomCap == 18
\* range(initial_zoom, 14, -1): the Esri loop stops above this zoom.
EsriStop == 14
GoogleCap == 20
BingCap == 19
OsmCap == 18
TileSize == 256
CanvasSize == 768
DefaultSize == 640

\* latlon_to_zoom_for_width clamps its rounded logarithm into [0, 18]; the
\* logarithm itself depends on latitude and radius, so every value of the
\* clamp's range is a possible result.
\* zoom = max(0, int(round(zoom))): the upper clamp left out.
latlon_to_zoom_for_width_no_upper_clamp(z) == Max(0, z)
latlon_to_zoom_for_width(z) == Max(0, Min(ZoomCap, z))

\* A point is carried as its Web-Mercator position in pixels of the zoom-18
\* map: x = (lon+180)/360 * 2^z * 256 at z = 18, likewise y.  At zoom z the
\* fractional tile coordinate is g / (256 * 2^(18-z)).
WorldPx == TileSize * Pow2(ZoomCap)

\* frac * 256: the point's pixel position on the map of zoom z.
PixelAtZoom(g, z) ==
    IF z <= ZoomCap THEN g \div Pow2(ZoomCap - z) ELSE g * Pow2(z - ZoomCap)

latlon_to_tile(g, z) == PixelAtZoom(g, z) \div TileSize

\* offset = int((frac - center) * 256)
tile_offset(g, z) == PixelAtZoom(g, z) % TileSize

max_tile(z) == Pow2(z) - 1

\* The range test of the tile loops: a tile outside [0, max_tile] is skipped.
InRange(g, z, d) ==
    /\ latlon_to_tile(g[1], z) + d[1] >= 0
    /\ latlon_to_tile(g[1], z) + d[1] <= max_tile(z)
    /\ latlon_to_tile(g[2], z) + d[2] >= 0
    /\ latlon_to_tile(g[2], z) + d[2] <= max_tile(z)

\* for dx in range(-1, 2): for dy in range(-1, 2): the k-th tile, k = 0..8.
TileAt(k) == <<(k \div 3) - 1, (k % 3) - 1>>
NTiles == 9

\* paste_x = (dx + 1) * tile_size, paste_y = (dy + 1) * tile_size
PastePos(d) == <<(d[1] + 1) * TileSize, (d[2] + 1) * TileSize>>

GridCells == {PastePos(TileAt(k)) : k \in 0..(NTiles - 1)}

\* Image.new('RGB', (768, 768), color=(200, 200, 200))
BlankCanvas == [c \in GridCells |-> "gray"]

NoStitch == [provider |-> "none", zoom |-> 0, idx |-> 0, tiles_downloaded |-> 0,
             canvas |-> BlankCanvas, requested |-> {}, failed |-> {}]

NewStitch(p, z) == [provider |-> p, zoom |-> z, idx |-> 0, tiles_downloaded |-> 0,
                    canvas |-> BlankCanvas, requested |-> {}, failed |-> {}]

\* left = max(0, min(center_px - size // 2, 768 - size)), center_px = 384 + offset
CropOrigin(off, size) ==
    Max(0, Min((CanvasSize \div 2) + off - (size \div 2), CanvasSize - size))

Crop(g, z, size, placeholder) ==
    [left |-> CropOrigin(tile_offset(g[1], z), size),
     top |-> CropOrigin(tile_offset(g[2], z), size),
     size |-> size,
     placeholder |-> placeholder]

\* if tiles_downloaded == 0: raise Exception(...)
StitchFailsAnyMissing(s) == s.tiles_downloaded < NTiles
StitchFails(s) == s.tiles_downloaded = 0

\* if google_api_key and google_api_key != "YOUR_GOOGLE_MAPS_API_KEY"
GoogleConfiguredNoPlaceholderTest(key) == key # ""
GoogleConfigured(key) == key # "" /\ key # "YOUR_GOOGLE_MAPS_API_KEY"

\* The loop body without its try/except: a failed fetch ends the loop.
TileStepAbortOnFailure(p) ==
    /\ fpc = "stitch"
    /\ st.provider = p
    /\ st.idx < NTiles
    /\ LET d == TileAt(st.idx) IN
       IF ~InRange(loc, st.zoom, d)
       THEN st' = [st EXCEPT !.idx = @ + 1]
       ELSE \E ok \in BOOLEAN :
              st' = IF ok
                    THEN [st EXCEPT !.idx = @ + 1,
                                    !.requested = @ \cup {d},
                                    !.canvas[PastePos(d)] = "tile",
                                    !.tiles_downloaded = @ + 1]
                    ELSE [st EXCEPT !.idx = NTiles,
                                    !.requested = @ \cup {d},
                                    !.failed = @ \cup {d}]
    /\ UNCHANGED <<loc, initial_zoom, google_api_key, fpc, zoom, attempts,
                   outcomes, fresult>>
    /\ UNCHANGED notFetch

\* One pass of a tile loop body: an out-of-range tile is skipped, an in-range
\* tile is requested; on success it is pasted at its grid position and counted,
\* on any exception it is only logged.
TileStep(p) ==
    /\ fpc = "stitch"
    /\ st.provider = p
    /\ st.idx < NTiles
    /\ LET d == TileAt(st.idx) IN
       IF ~InRange(loc, st.zoom, d)
       THEN st' = [st EXCEPT !.idx = @ + 1]
       ELSE \E ok \in BOOLEAN :
              st' = IF ok
                    THEN [st EXCEPT !.idx = @ + 1,
                                    !.requested = @ \cup {d},
                                    !.canvas[PastePos(d)] = "tile",
                                    !.tiles_downloaded = @ + 1]
                    ELSE [st EXCEPT !.idx = @ + 1,
                                    !.requested = @ \cup {d},
                                    !.failed = @ \cup {d}]
    /\ UNCHANGED <<loc, initial_zoom, google_api_key, fpc, zoom, attempts,
                   outcomes, fresult>>
    /\ UNCHANGED notFetch

EsriTile == TileStep("esri_world_imagery")
BingTile == TileStep("bing_aerial")
OsmTile  == TileStep("osm_standard_fallback")

\* for zoom in range(initial_zoom, 14, -1): the loop head.
EsriLoop ==
    /\ fpc = "esri_loop"
    /\ IF zoom > EsriStop
       THEN /\ fpc' = "stitch"
            /\ st' = NewStitch("esri_world_imagery", zoom)
            /\ attempts' = Append(attempts, [source |-> "esri_world_imagery", zoom |-> zoom])
       ELSE /\ fpc' = "google"
            /\ UNCHANGED <<st, attempts>>
    /\ UNCHANGED <<loc, initial_zoom, google_api_key, zoom, outcomes, fresult>>
    /\ UNCHANGED notFetch

\* End of download_osm_esri_tiles and the orchestrator's handling of it.
EsriDone ==
    /\ fpc = "stitch"
    /\ st.provider = "esri_world_imagery"
    /\ st.idx = NTiles
    /\ IF StitchFails(st)
       THEN \* raise Exception("Failed to download any tiles"), caught at line 71
            /\ outcomes' = Append(outcomes, "raise")
            /\ zoom' = zoom - 1
            /\ fpc' = "esri_loop"
            /\ UNCHANGED fresult
       ELSE \E placeholder \in BOOLEAN :
              IF ~placeholder
              THEN /\ outcomes' = Append(outcomes, "image")
                   /\ fresult' = [status |-> "returned",
                                  source |-> "esri_world_imagery", zoom |-> zoom,
                                  img |-> Crop(loc, st.zoom, DefaultSize, placeholder)]
                   /\ fpc' = "done"
                   /\ UNCHANGED zoom
              ELSE /\ outcomes' = Append(outcomes, "placeholder")
                   /\ zoom' = zoom - 1
                   /\ fpc' = "esri_loop"
                   /\ UNCHANGED fresult
    /\ UNCHANGED <<loc, initial_zoom, google_api_key, attempts, st>>
    /\ UNCHANGED notFetch

\* Lines 74-82 with download_google_static_maps: one request, which raises,
\* or answers an image that is a placeholder or not.
Google ==
    /\ fpc = "google"
    /\ IF GoogleConfigured(google_api_key)
       THEN /\ attempts' = Append(attempts, [source |-> "google_static_maps",
                                             zoom |-> Min(initial_zoom, GoogleCap)])
            /\ \E out \in {"raise", "placeholder", "image"} :
                 IF out = "image"
                 THEN /\ outcomes' = Append(outcomes, "image")
                      /\ fresult' = [status |-> "returned",
                                     source |-> "google_static_maps",
                                     zoom |-> initial_zoom,
                                     img |-> [left |-> 0, top |-> 0,
                                              size |-> DefaultSize,
                                              placeholder |-> FALSE]]
                      /\ fpc' = "done"
                 ELSE /\ outcomes' = Append(outcomes, out)
                      /\ fpc' = "bing"
                      /\ UNCHANGED fresult
       ELSE /\ fpc' = "bing"
            /\ UNCHANGED <<attempts, outcomes, fresult>>
    /\ UNCHANGED <<loc, initial_zoom, google_api_key, zoom, st>>
    /\ UNCHANGED notFetch

\* Line 87: download_bing_aerial(lat, lon, initial_zoom, size); zoom = min(zoom, 19)
BingStart ==
    /\ fpc = "bing"
    /\ fpc' = "stitch"
    /\ st' = NewStitch("bing_aerial", Min(initial_zoom, BingCap))
    /\ attempts' = Append(attempts, [source |-> "bing_aerial",
                                     zoom |-> Min(initial_zoom, BingCap)])
    /\ UNCHANGED <<loc, initial_zoom, google_api_key, zoom, outcomes, fresult>>
    /\ UNCHANGED notFetch

\* End of download_bing_aerial and lines 88-92 of the orchestrator.
BingDone ==
    /\ fpc = "stitch"
    /\ st.provider = "bing_aerial"
    /\ st.idx = NTiles
    /\ IF StitchFails(st)
       THEN /\ outcomes' = Append(outcomes, "raise")
            /\ fpc' = "osm"
            /\ UNCHANGED fresult
       ELSE \E placeholder \in BOOLEAN :
              IF ~placeholder
              THEN /\ outcomes' = Append(outcomes, "image")
                   /\ fresult' = [status |-> "returned",
                                  source |-> "bing_aerial", zoom |-> initial_zoom,
                                  img |-> Crop(loc, st.zoom, DefaultSize, placeholder)]
                   /\ fpc' = "done"
              ELSE /\ outcomes' = Append(outcomes, "placeholder")
                   /\ fpc' = "osm"
                   /\ UNCHANGED fresult
    /\ UNCHANGED <<loc, initial_zoom, google_api_key, zoom, attempts, st>>
    /\ UNCHANGED notFetch

\* Line 96: download_osm_standard_map(lat, lon, min(initial_zoom, 18), size)
OsmStart ==
    /\ fpc = "osm"
    /\ fpc' = "stitch"
    /\ st' = NewStitch("osm_standard_fallback", Min(initial_zoom, OsmCap))
    /\ attempts' = Append(attempts, [source |-> "osm_standard_fallback",
                                     zoom |-> Min(initial_zoom, OsmCap)])
    /\ UNCHANGED <<loc, initial_zoom, google_api_key, zoom, outcomes, fresult>>
    /\ UNCHANGED notFetch

\* End of download_osm_standard_map and lines 97-98: no try block, no
\* placeholder test.
OsmDone ==
    /\ fpc = "stitch"
    /\ st.provider = "osm_standard_fallback"
    /\ st.idx = NTiles
    /\ IF StitchFails(st)
       THEN /\ outcomes' = Append(outcomes, "raise")
            /\ fresult' = [status |-> "raised", source |-> "osm_standard_fallback",
                           zoom |-> initial_zoom,
                           img |-> [left |-> 0, top |-> 0, size |-> 0,
                                    placeholder |-> TRUE]]
            /\ fpc' = "done"
       ELSE \E placeholder \in BOOLEAN :
              /\ outcomes' = Append(outcomes, IF placeholder THEN "placeholder" ELSE "image")
              /\ fresult' = [status |-> "returned",
                             source |-> "osm_standard_fallback", zoom |-> initial_zoom,
                             img |-> Crop(loc, st.zoom, DefaultSize, placeholder)]
              /\ fpc' = "done"
    /\ UNCHANGED <<loc, initial_zoom, google_api_key, zoom, attempts, st>>
    /\ UNCHANGED notFetch

NoResult == [status |-> "none", source |-> "none", zoom |-> 0,
             img |-> [left |-> 0, top |-> 0, size |-> 0, placeholder |-> TRUE]]

\* Target points: the north-west corner of the map, an interior point and a
\* point in the last tile column.
Locations == {<<0, 0>>, <<123456, 7654321>>, <<WorldPx - 1, 40000000>>}
\* Values of int(round(log2(...))) before the clamp: 20 is what the 1200 and
\* 2400 sqft buffers give at 640 px and latitude 80 (22 or 23 nearer the
\* equator), the small values belong to very large ground widths.
InitialZooms == {0, 1, 14, 15, 16, 18, 19, 20}
GoogleKeys == {"", "YOUR_GOOGLE_MAPS_API_KEY", "key"}

FetchIdle ==
    /\ loc = <<0, 0>> /\ initial_zoom = 0 /\ google_api_key = ""
    /\ fpc = "idle" /\ zoom = 0 /\ attempts = <<>> /\ outcomes = <<>>
    /\ st = NoStitch /\ fresult = NoResult

FetchInit ==
    /\ loc \in Locations
    /\ \E z \in InitialZooms : initial_zoom = latlon_to_zoom_for_width(z)
    /\ google_api_key \in GoogleKeys
    /\ fpc = "esri_loop"
    /\ zoom = initial_zoom
    /\ attempts = <<>>
    /\ outcomes = <<>>
    /\ st = NoStitch
    /\ fresult = NoResult

FetchNext ==
    \/ EsriLoop \/ EsriTile \/ EsriDone
    \/ Google
    \/ BingStart \/ BingTile \/ BingDone
    \/ OsmStart \/ OsmTile \/ OsmDone

CropIdle  == crop_in = <<>> /\ crop_out = <<>> /\ cpc = "idle"
QuantIdle == q_in = <<>> /\ q_out = <<>> /\ qpc = "idle"
QCIdle    == qc_in = <<>> /\ qc_out = <<>> /\ qcpc = "idle"
BatchIdle ==
    /\ table = <<>> /\ results = <<>> /\ bpc = "idle"
    /\ predictions = [written |-> FALSE, content |-> <<>>]
    /\ row = <<>> /\ rowlog = <<>>

FetchStart == FetchInit /\ CropIdle /\ QuantIdle /\ QCIdle /\ BatchIdle

SpecFetch == FetchStart /\ [][FetchNext]_vars

(***************************************************************************)
(* The crop window of the stitchers as a function of the sub-tile offset   *)
(* and the requested size (download_osm_esri_tiles 264-278,                *)
(* download_bing_aerial 189-195, download_osm_standard_map 338-344).       *)
(***************************************************************************)

\* Lines 264-276 of the Esri stitcher: left/top computed, then clamped, then
\* right/bottom recomputed.
EsriCropWindow(off_x, off_y, size) ==
    LET center_px == (CanvasSize \div 2) + off_x
        center_py == (CanvasSize \div 2) + off_y
        left0 == center_px - (size \div 2)
        top0 == center_py - (size \div 2)
        left == Max(0, Min(left0, CanvasSize - size))
        top == Max(0, Min(top0, CanvasSize - size))
    IN  [left |-> left, top |-> top, right |-> left + size, bottom |-> top + size]

\* Lines 189-195 (Bing) and 338-344 (OSM): the same window in one step.
CropWindow(off_x, off_y, size) ==
    [left |-> CropOrigin(off_x, size), top |-> CropOrigin(off_y, size),
     right |-> CropOrigin(off_x, size) + size,
     bottom |-> CropOrigin(off_y, size) + size]

\* offset = int((frac - center) * 256) lies in 0..255.
CropOffsets == {0, 63, 64, 100, 191, 192, 255}
\* size is a parameter of every stitcher (default 640).
CropSizes == {TileSize, DefaultSize, CanvasSize, 1024}
CropProviders == {"esri_world_imagery", "bing_aerial", "osm_standard_fallback"}

CropInit ==
    /\ \E p \in CropProviders, ox \in CropOffsets, oy \in CropOffsets,
          sz \in CropSizes :
         crop_in = [provider |-> p, offset_x |-> ox, offset_y |-> oy, size |-> sz]
    /\ crop_out = <<>>
    /\ cpc = "start"

CropEsri ==
    /\ cpc = "start"
    /\ crop_in.provider = "esri_world_imagery"
    /\ crop_out' = EsriCropWindow(crop_in.offset_x, crop_in.offset_y, crop_in.size)
    /\ cpc' = "done"
    /\ UNCHANGED crop_in
    /\ UNCHANGED notCrop

CropBing ==
    /\ cpc = "start"
    /\ crop_in.provider = "bing_aerial"
    /\ crop_out' = CropWindow(crop_in.offset_x, crop_in.offset_y, crop_in.size)
    /\ cpc' = "done"
    /\ UNCHANGED crop_in
    /\ UNCHANGED notCrop

CropOsm ==
    /\ cpc = "start"
    /\ crop_in.provider = "osm_standard_fallback"
    /\ crop_out' = CropWindow(crop_in.offset_x, crop_in.offset_y, crop_in.size)
    /\ cpc' = "done"
    /\ UNCHANGED crop_in
    /\ UNCHANGED notCrop

CropNext == CropEsri \/ CropBing \/ CropOsm

CropStart == CropInit /\ FetchIdle /\ QuantIdle /\ QCIdle /\ BatchIdle

SpecCrop == CropStart /\ [][CropNext]_vars

(***************************************************************************)
(* Quantifier: quantify.py                                                 *)
(*                                                                         *)
(* Lengths are fixed-point numbers in units of 1e-4 m and areas in units   *)
(* of 1e-8 m^2 (AreaPerSqM per m^2).  A raster is the set of its true     *)
(* pixels <<x, y>>, 0 <= x < w, 0 <= y < h.  A detection is                *)
(*   [box |-> <<x1, y1, x2, y2>>, conf |-> c,                              *)
(*    mask |-> [present |-> BOOLEAN, w |-> mw, h |-> mh, px |-> raster]]   *)
(* with box already truncated to integers (map(int, d["box"])).            *)
(***************************************************************************)

AreaPerSqM == 10000 * 10000

NoMask == [present |-> FALSE, w |-> 0, h |-> 0, px |-> {}]

\* meters_per_pixel ** 2 with meters_per_pixel = (2 * radius_m) / w, computed
\* as floor((2r)^2 / w^2) without leaving 32 bits.
meters_per_pixel_sq(radius_m, w) ==
    LET m == 2 * radius_m
        q == m \div w
        r == m % w
    IN  (q * m + ((r * m) \div w)) \div w

\* The conversion with the scale taken once instead of squared.
pixels_to_m2_linear(num_pixels, radius_m, w) ==
    num_pixels * ((2 * radius_m) \div w)

\* pixels_to_m2(num_pixels, meters_per_pixel) = num_pixels * meters_per_pixel ** 2
pixels_to_m2(num_pixels, radius_m, w) ==
    num_pixels * meters_per_pixel_sq(radius_m, w)

\* A numpy slice bound i on an axis of length n.
SliceIdx(i, n) == IF i < 0 THEN Max(0, i + n) ELSE Min(i, n)

\* m = zeros((h, w)); m[y1c:y2c, x1c:x2c] = True with x1c = max(0, x1),
\* x2c = min(w-1, x2), y1c = max(0, y1), y2c = min(h-1, y2).
BoxMask(box, w, h) ==
    LET x1c == Max(0, box[1])
        x2c == Min(w - 1, box[3])
        y1c == Max(0, box[2])
        y2c == Min(h - 1, box[4])
    IN  {<<x, y>> : x \in SliceIdx(x1c, w)..(SliceIdx(x2c, w) - 1),
                    y \in SliceIdx(y1c, h)..(SliceIdx(y2c, h) - 1)}

\* Image.resize((w, h), resample=NEAREST): output pixel (x, y) reads source
\* pixel (floor((x + 0.5) * mw / w), floor((y + 0.5) * mh / h)).
ResizeNearest(mask, w, h) ==
    {<<x, y>> \in (0..(w - 1)) \X (0..(h - 1)) :
        <<((2 * x + 1) * mask.w) \div (2 * w),
          ((2 * y + 1) * mask.h) \div (2 * h)>> \in mask.px}

\* Lines 24-37: the raster m of one detection.
DetectionMask(d, w, h) ==
    IF ~d.mask.present
    THEN BoxMask(d.box, w, h)
    ELSE IF d.mask.w = w /\ d.mask.h = h
         THEN d.mask.px
         ELSE ResizeNearest(d.mask, w, h)

\* radius_px = int((radius_m * 1.0) / meters_per_pixel), which is w / 2 before
\* truncation (the floating-point quotient is exactly 320.0 for w = 640 and
\* the radii of 1200 and 2400 sqft).
radius_px(radius_m, w) == (radius_m * w) \div (2 * radius_m)

\* circle = (xx - cx)**2 + (yy - cy)**2 <= radius_px**2, cx, cy = w // 2, h // 2
InCircle(p, w, h, radius_m) ==
    (p[1] - (w \div 2)) * (p[1] - (w \div 2))
      + (p[2] - (h \div 2)) * (p[2] - (h \div 2))
        <= radius_px(radius_m, w) * radius_px(radius_m, w)

\* Scoring by the raw size of the raster instead of its part in the circle.
OverlapRawSize(m, w, h, radius_m) == Cardinality(m)

\* overlap = np.logical_and(m, circle).sum()
Overlap(m, w, h, radius_m) ==
    Cardinality({p \in m : InCircle(p, w, h, radius_m)})

NoBest == [best_idx |-> -1, best_overlap |-> 0, mask_pixels |-> 0,
           selected_mask |-> NoMask]

\* if overlap >= best_overlap: a later detection with an equal score wins.
BetterOrEqual(overlap, best_overlap) == overlap >= best_overlap
\* if overlap > best_overlap
Better(overlap, best_overlap) == overlap > best_overlap

\* The loop of lines 23-49 over detections[1..n]; index idx is 0-based as in
\* enumerate(), best_idx = -1 stands for None.
RECURSIVE SelectBest(_, _, _, _, _)
SelectBest(detections, n, w, h, radius_m) ==
    IF n = 0 THEN NoBest
    ELSE LET prev == SelectBest(detections, n - 1, w, h, radius_m)
             m == DetectionMask(detections[n], w, h)
             overlap == Overlap(m, w, h, radius_m)
         IN  IF Better(overlap, prev.best_overlap)
             THEN [best_idx |-> n - 1, best_overlap |-> overlap,
                   mask_pixels |-> Cardinality(m),
                   selected_mask |-> [present |-> TRUE, w |-> w, h |-> h, px |-> m]]
             ELSE prev

\* compute_selected_panel_area(detections, image_size_px, radius_m)
\*   -> (area_m2, mask_pixels, selected_mask)
compute_selected_panel_area(detections, image_size_px, radius_m) ==
    LET w == image_size_px[1]
        h == image_size_px[2]
        b == SelectBest(detections, Len(detections), w, h, radius_m)
    IN  IF b.best_idx = -1
        THEN [area_m2 |-> 0, mask_pixels |-> 0, selected_mask |-> NoMask,
              best_idx |-> -1]
        ELSE [area_m2 |-> pixels_to_m2(b.mask_pixels, radius_m, w),
              mask_pixels |-> b.mask_pixels,
              selected_mask |-> b.selected_mask,
              best_idx |-> b.best_idx]

\* ---- inputs of the quantifier specification ----
MaxDets == 2
GridW == 4
GridH == 4

ImageSizes == {<<GridW, GridH>>, <<GridW + 2, GridH>>}
Radii == {10, 25}

\* Box intervals on an axis of length n: the first pixel, a span through the
\* centre, one reaching past the far edge, one lying before the near edge.
AxisSpans(n) == {<<0, 1>>, <<1, n - 1>>, <<n - 2, n + 2>>, <<-3, -1>>}

BoxDetections(w, h) ==
    {[box |-> <<sx[1], sy[1], sx[2], sy[2]>>, conf |-> 50, mask |-> NoMask] :
        sx \in AxisSpans(w), sy \in AxisSpans(h)}

\* Segmentation masks at the image's own shape, and coarse 2x2 masks that go
\* through the resize.
FullMasks(w, h) ==
    {[present |-> TRUE, w |-> w, h |-> h, px |-> s] :
        s \in {{}, {<<0, 0>>}, {<<0, 0>>, <<0, 1>>, <<1, 0>>},
               {<<w \div 2, h \div 2>>}, {<<w - 1, h - 1>>, <<0, 0>>}}}
CoarseMasks ==
    {[present |-> TRUE, w |-> 2, h |-> 2, px |-> s] :
        s \in {{<<0, 0>>}, {<<1, 1>>}, {<<0, 1>>, <<1, 0>>},
               {<<0, 0>>, <<0, 1>>, <<1, 0>>, <<1, 1>>}}}

MaskDetections(w, h) ==
    {[box |-> <<0, 0, w, h>>, conf |-> 50, mask |-> m] :
        m \in FullMasks(w, h) \cup CoarseMasks}

DetectionsOn(w, h) == BoxDetections(w, h) \cup MaskDetections(w, h)

DetectionLists(w, h) ==
    UNION {[1..n -> DetectionsOn(w, h)] : n \in 0..MaxDets}

QuantInit ==
    /\ \E sz \in ImageSizes, r \in Radii :
         \E ds \in DetectionLists(sz[1], sz[2]) :
           q_in = [detections |-> ds, image_size_px |-> sz, radius_m |-> r]
    /\ q_out = <<>>
    /\ qpc = "start"

Quantify ==
    /\ qpc = "start"
    /\ q_out' = compute_selected_panel_area(q_in.detections, q_in.image_size_px,
                                            q_in.radius_m)
    /\ qpc' = "done"
    /\ UNCHANGED q_in
    /\ UNCHANGED notQuant

QuantStart == QuantInit /\ FetchIdle /\ CropIdle /\ QCIdle /\ BatchIdle

QuantNext == Quantify

SpecQuant == QuantStart /\ [][QuantNext]_vars

(***************************************************************************)
(* QC decision: qc.py                                                      *)
(*                                                                         *)
(* An image is [size |-> <<w, h>>, lum |-> <<g1, .., gNBands>>]: NBands    *)
(* regions of equal area, each of one grayscale value 0..255, which fixes  *)
(* the mean luminance and the bright and dark pixel fractions.             *)
(***************************************************************************)

MinPixels == 300
MinBrightness == 20
ShadowThreshold == 40
CloudThreshold == 220

RECURSIVE SumSeq(_)
SumSeq(q) == IF q = <<>> THEN 0 ELSE Head(q) + SumSeq(Tail(q))

\* return (w >= min_pixels or h >= min_pixels)
resolution_check_either(image_pil) ==
    image_pil.size[1] >= MinPixels \/ image_pil.size[2] >= MinPixels

\* return (w >= min_pixels and h >= min_pixels)
resolution_check(image_pil) ==
    image_pil.size[1] >= MinPixels /\ image_pil.size[2] >= MinPixels

\* stat.mean[0] >= min_brightness
brightness_check(image_pil) ==
    SumSeq(image_pil.lum) >= MinBrightness * Len(image_pil.lum)

\* bright_frac > 0.4 or dark_frac > 0.4 -> False
cloud_shadow_check(image_pil) ==
    LET n == Len(image_pil.lum)
        bright == Cardinality({i \in 1..n : image_pil.lum[i] > CloudThreshold})
        dark == Cardinality({i \in 1..n : image_pil.lum[i] < ShadowThreshold})
    IN  ~(bright * 10 > 4 * n \/ dark * 10 > 4 * n)

\* qc_decision(image_pil, detections) -> (qc_status, reasons)
qc_decision(image_pil, detections) ==
    LET reasons ==
          (IF ~resolution_check(image_pil) THEN <<"low_resolution">> ELSE <<>>)
          \o (IF ~brightness_check(image_pil) THEN <<"low_brightness">> ELSE <<>>)
          \o (IF ~cloud_shadow_check(image_pil) THEN <<"cloud_or_shadow">> ELSE <<>>)
          \o (IF detections = <<>> THEN <<"no_detection">> ELSE <<>>)
    IN  IF reasons # <<>>
        THEN [status |-> "NOT_VERIFIABLE", reasons |-> reasons]
        ELSE [status |-> "VERIFIABLE", reasons |-> <<>>]

\* ---- inputs of the QC specification ----
NBands == 5
GrayLevels == {0, 30, 128, 240}
QCSides == {299, 300, 640}

QCImages ==
    {[size |-> <<w, h>>, lum |-> l] :
        w \in QCSides, h \in QCSides, l \in [1..NBands -> GrayLevels]}

QCDetections ==
    {<<>>, <<[box |-> <<0, 0, 17, 17>>, conf |-> 50, mask |-> NoMask]>>}

QCInit ==
    /\ \E im \in QCImages, ds \in QCDetections :
         qc_in = [image_pil |-> im, detections |-> ds]
    /\ qc_out = <<>>
    /\ qcpc = "start"

QCDecide ==
    /\ qcpc = "start"
    /\ qc_out' = qc_decision(qc_in.image_pil, qc_in.detections)
    /\ qcpc' = "done"
    /\ UNCHANGED qc_in
    /\ UNCHANGED notQC

QCStart == QCInit /\ FetchIdle /\ CropIdle /\ QuantIdle /\ BatchIdle

QCNext == QCDecide

SpecQC == QCStart /\ [][QCNext]_vars

(***************************************************************************)
(* Per-location and batch driver: inference.py, fetch_image.py            *)
(*                                                                         *)
(* A fetch answers an exception or an image with its metadata; the         *)
(* detector answers a detection list.  Both are inputs of process_row.     *)
(* save_overlay (lines 45-54) only sets the local overlay_path, inside its *)
(* own try block, and is left out; file writes are taken to succeed.       *)
(***************************************************************************)

BufferSqftPrimary == 1200
BufferSqftSecondary == 2400

\* sqft_to_radius_meters: sqrt(sqft / pi) * 0.3048, in units of 1e-4 m
\* (5.95704 m and 8.42453 m).
sqft_to_radius_meters(sqft) ==
    CASE sqft = BufferSqftPrimary -> 59570
      [] sqft = BufferSqftSecondary -> 84245

\* bool(area_m2 > 0.1)
has_solar_of(area_m2) == area_m2 * 10 > AreaPerSqM

\* float(round(area_m2, 3)), in thousandths of a square metre
round3(area_m2) == (area_m2 + (AreaPerSqM \div 2000)) \div (AreaPerSqM \div 1000)

\* max([d["conf"] for d in detections])
RECURSIVE MaxConf(_)
MaxConf(ds) ==
    IF ds = <<>> THEN 0 ELSE Max(Head(ds).conf, MaxConf(Tail(ds)))

\* int(sample_id) succeeds
IntConvertible(sample_id) == sample_id.kind = "int"

\* if detections: ... else: (secondary buffer) -- taken never
NeedsSecondaryNever(detections) == FALSE
\* if detections: ... else: (secondary buffer)
NeedsSecondary(detections) == detections = <<>>

\* ---- inputs of the batch specification ----
MaxRows == 2

\* Rows of the file: a numeric sample_id, and one that int() rejects (a
\* label, a missing cell).  lat and lon are numbers, so the progress line of
\* line 138 formats.
TableRows ==
    {[sample_id |-> [kind |-> "int", val |-> 1], lat |-> 12, lon |-> 77],
     [sample_id |-> [kind |-> "str", val |-> 0], lat |-> 28, lon |-> 76]}

Tables == UNION {[1..n -> TableRows] : n \in 0..MaxRows}

GoodImage == [size |-> <<DefaultSize, DefaultSize>>, lum |-> <<128, 128, 128, 128, 128>>]
DarkImage == [size |-> <<DefaultSize, DefaultSize>>, lum |-> <<0, 0, 0, 30, 128>>]

\* fetch_for_coordinate results: (img, metadata) of download_maptiler_static_sat.
BatchFetches ==
    {[img |-> GoodImage, source |-> "esri_world_imagery", zoom |-> 18],
     [img |-> DarkImage, source |-> "esri_world_imagery", zoom |-> 17],
     [img |-> GoodImage, source |-> "osm_standard_fallback", zoom |-> 18]}

\* predict_on_pil results on a 640x640 image: boxes without masks.
\*   Box289  17x17 pixels at the centre     Corner  10x10 at the image corner
\*   Box145  29x5 pixels near the centre    Panel   20x20 near the centre
Box289 == [box |-> <<312, 312, 329, 329>>, conf |-> 90, mask |-> NoMask]
Corner == [box |-> <<0, 0, 10, 10>>, conf |-> 30, mask |-> NoMask]
Box145 == [box |-> <<300, 300, 329, 305>>, conf |-> 60, mask |-> NoMask]
Panel  == [box |-> <<300, 300, 320, 320>>, conf |-> 80, mask |-> NoMask]
\* A detection with a segmentation mask at the image's shape, at the centre.
Seg == [box |-> <<318, 318, 322, 321>>, conf |-> 70,
        mask |-> [present |-> TRUE, w |-> DefaultSize, h |-> DefaultSize,
                  px |-> {<<319, 319>>, <<320, 319>>, <<320, 320>>}]]

BatchDetections ==
    {<<>>, <<Box289>>, <<Corner>>, <<Box145>>, <<Box145, Panel>>, <<Seg>>}

NoPredictions == [written |-> FALSE, content |-> <<>>]
NoImage == [size |-> <<0, 0>>, lum |-> <<>>]
NoMeta == [source |-> "none", zoom |-> 0, capture_date |-> "None"]
NoQC == [status |-> "none", reasons |-> <<>>]

\* What one fetch-and-detect attempt of process_row produced: the locals
\* (img, metadata, radius_m, detections) of lines 17-18 and
\* (img2, metadata2, radius_m2, detections2) of lines 33-34.
NoAttempt == [called |-> FALSE, img |-> NoImage, metadata |-> NoMeta,
              radius_m |-> 0, detections |-> <<>>]

Attempt(f, ds, radius) ==
    [called |-> TRUE, img |-> f.img,
     metadata |-> [source |-> f.source, zoom |-> f.zoom, capture_date |-> "None"],
     radius_m |-> radius, detections |-> ds]

IdleRow(i) ==
    [idx |-> i, pc |-> "loop", img |-> NoImage, metadata |-> NoMeta,
     radius_m |-> 0, qc |-> NoQC, chosen_buffer |-> 0, area_m2 |-> 0,
     confidence |-> 0, bbox_or_mask |-> "None",
     primary_n |-> -1, secondary_n |-> -1,
     att1 |-> NoAttempt, att2 |-> NoAttempt]

\* The finished call as the row log keeps it.
LogEntry(r) ==
    [idx |-> r.idx, phase |-> r.pc, primary_n |-> r.primary_n,
     secondary_n |-> r.secondary_n]

\* "bbox" if mask is not None else "mask": the test inverted.
bbox_or_mask_inverted(mask) == IF mask.present THEN "bbox" ELSE "mask"
\* Lines 30 and 42: "mask" if mask is not None else "bbox"
bbox_or_mask_of(mask) == IF mask.present THEN "mask" ELSE "bbox"

\* Lines 36-42 without line 43: the QC verdict of the primary image is kept.
AdoptSecondaryKeepsPrimaryQC(r, f, ds) ==
    LET radius == sqft_to_radius_meters(BufferSqftSecondary)
        q == compute_selected_panel_area(ds, f.img.size, radius) IN
    [r EXCEPT
       !.img = f.img,
       !.metadata = [source |-> f.source, zoom |-> f.zoom, capture_date |-> "None"],
       !.radius_m = radius,
       !.chosen_buffer = BufferSqftSecondary,
       !.area_m2 = q.area_m2,
       !.confidence = MaxConf(ds),
       !.bbox_or_mask = bbox_or_mask_of(q.selected_mask)]

\* Lines 36-43: the secondary attempt's image, metadata, radius, buffer, area,
\* confidence, bbox_or_mask and QC verdict replace the primary's.
AdoptSecondary(r, f, ds) ==
    LET radius == sqft_to_radius_meters(BufferSqftSecondary)
        q == compute_selected_panel_area(ds, f.img.size, radius) IN
    [r EXCEPT
       !.img = f.img,
       !.metadata = [source |-> f.source, zoom |-> f.zoom, capture_date |-> "None"],
       !.radius_m = radius,
       !.chosen_buffer = BufferSqftSecondary,
       !.area_m2 = q.area_m2,
       !.confidence = MaxConf(ds),
       !.bbox_or_mask = bbox_or_mask_of(q.selected_mask),
       !.qc = qc_decision(f.img, ds)]

\* Lines 145-150: the handler's entry for a failed location.
ErrorEntry(r, e) ==
    [sample_id |-> r.sample_id.val, lat |-> r.lat, lon |-> r.lon, error |-> e]

\* Lines 143-150: the except block of the row loop.  Its int(sample_id) is
\* outside any try, so a sample_id that does not convert ends the function.
HandleException(e) ==
    LET r == table[row.idx] IN
    IF IntConvertible(r.sample_id)
    THEN /\ results' = Append(results, ErrorEntry(r, e))
         /\ rowlog' = Append(rowlog, LogEntry(row))
         /\ row' = IdleRow(row.idx + 1)
         /\ UNCHANGED <<bpc, predictions>>
    ELSE /\ bpc' = "aborted"
         /\ row' = [row EXCEPT !.pc = "raised"]
         /\ UNCHANGED <<results, rowlog, predictions>>

\* Lines 134-138 and 152-157: the loop head, and the aggregate write after
\* the last row.
NextRow ==
    /\ bpc = "loop"
    /\ row.pc = "loop"
    /\ IF row.idx <= Len(table)
       THEN /\ row' = [row EXCEPT !.pc = "primary"]
            /\ UNCHANGED <<bpc, predictions>>
       ELSE /\ predictions' = [written |-> TRUE, content |-> results]
            /\ bpc' = "done"
            /\ UNCHANGED row
    /\ UNCHANGED <<table, results, rowlog>>
    /\ UNCHANGED notBatch

\* Lines 17-30: the primary attempt.
Primary ==
    /\ bpc = "loop"
    /\ row.pc = "primary"
    /\ \/ /\ HandleException("Failed to download OSM tiles")
       \/ \E f \in BatchFetches, ds \in BatchDetections :
            LET radius == sqft_to_radius_meters(BufferSqftPrimary)
                q == compute_selected_panel_area(ds, f.img.size, radius) IN
            /\ row' = [row EXCEPT
                  !.img = f.img,
                  !.metadata = [source |-> f.source, zoom |-> f.zoom,
                                capture_date |-> "None"],
                  !.radius_m = radius,
                  !.qc = qc_decision(f.img, ds),
                  !.chosen_buffer = BufferSqftPrimary,
                  !.area_m2 = IF ds # <<>> THEN q.area_m2 ELSE 0,
                  !.confidence = IF ds # <<>> THEN MaxConf(ds) ELSE 0,
                  !.bbox_or_mask = IF ds # <<>>
                                   THEN bbox_or_mask_of(q.selected_mask)
                                   ELSE "None",
                  !.primary_n = Len(ds),
                  !.att1 = Attempt(f, ds, radius),
                  !.pc = IF NeedsSecondary(ds) THEN "secondary" ELSE "record"]
            /\ UNCHANGED <<results, rowlog, bpc, predictions>>
    /\ UNCHANGED table
    /\ UNCHANGED notBatch

\* Lines 31-43: the secondary attempt at the larger buffer.
Secondary ==
    /\ bpc = "loop"
    /\ row.pc = "secondary"
    /\ \/ /\ HandleException("Failed to download OSM tiles")
       \/ \E f \in BatchFetches, ds \in BatchDetections :
            LET radius == sqft_to_radius_meters(BufferSqftSecondary)
                seen == [row EXCEPT !.att2 = Attempt(f, ds, radius),
                                    !.secondary_n = Len(ds),
                                    !.pc = "record"] IN
            /\ row' = IF ds # <<>> THEN AdoptSecondary(seen, f, ds) ELSE seen
            /\ UNCHANGED <<results, rowlog, bpc, predictions>>
    /\ UNCHANGED table
    /\ UNCHANGED notBatch

\* Lines 56-68: the record of a location.
RecordOf(r, l) ==
    [sample_id |-> r.sample_id.val, lat |-> r.lat, lon |-> r.lon,
     has_solar |-> has_solar_of(l.area_m2),
     confidence |-> l.confidence,
     pv_area_sqm_est |-> round3(l.area_m2),
     buffer_radius_sqft |-> l.chosen_buffer,
     qc_status |-> l.qc.status,
     qc_reasons |-> l.qc.reasons,
     bbox_or_mask |-> l.bbox_or_mask,
     image_metadata |-> l.metadata]

\* Lines 56-74 and 141-142: build the record (int(sample_id) may raise),
\* return it, append it.
Record ==
    /\ bpc = "loop"
    /\ row.pc = "record"
    /\ IF IntConvertible(table[row.idx].sample_id)
       THEN /\ results' = Append(results, RecordOf(table[row.idx], row))
            /\ rowlog' = Append(rowlog, LogEntry(row))
            /\ row' = IdleRow(row.idx + 1)
            /\ UNCHANGED <<bpc, predictions>>
       ELSE HandleException("invalid literal for int()")
    /\ UNCHANGED table
    /\ UNCHANGED notBatch

BatchInit ==
    /\ table \in Tables
    /\ results = <<>>
    /\ predictions = NoPredictions
    /\ bpc = "loop"
    /\ row = IdleRow(1)
    /\ rowlog = <<>>

BatchNext == NextRow \/ Primary \/ Secondary \/ Record

BatchStart == BatchInit /\ FetchIdle /\ CropIdle /\ QuantIdle /\ QCIdle

SpecBatch == BatchStart /\ [][BatchNext]_vars

(***************************************************************************)
(* Properties of the acquisition layer                                     *)
(***************************************************************************)

Rejected == {"raise", "placeholder"}

RECURSIVE EsriEntries(_)
EsriEntries(z) ==
    IF z < 15 THEN <<>>
    ELSE <<[source |-> "esri_world_imagery", zoom |-> z]>> \o EsriEntries(z - 1)

\* The fixed provider list of one call, for initial zoom z0 and the configured key.
ProviderList(z0, key) ==
    EsriEntries(z0)
    \o (IF key # "" /\ key # "YOUR_GOOGLE_MAPS_API_KEY"
        THEN <<[source |-> "google_static_maps", zoom |-> z0]>> ELSE <<>>)
    \o <<[source |-> "bing_aerial", zoom |-> z0],
         [source |-> "osm_standard_fallback", zoom |-> z0]>>

Last(s) == s[Len(s)]

\* C1: the attempts of one call are a prefix of [Esri z0..15, Google (only with
\* a real key), Bing z0, OSM z0]; an entry is attempted only after all earlier
\* ones raised or gave a placeholder crop; an Esri/Google/Bing attempt that
\* yields a non-placeholder image ends the call, which returns that attempt's
\* source and zoom.
C1_ProviderOrder ==
    LET L == ProviderList(initial_zoom, google_api_key) IN
    /\ Len(attempts) <= Len(L)
    /\ \A i \in 1..Len(attempts) : attempts[i] = L[i]
    /\ Len(outcomes) <= Len(attempts)
    /\ Len(attempts) <= Len(outcomes) + 1
    /\ \A i \in 1..Len(outcomes) :
         /\ i < Len(attempts) => outcomes[i] \in Rejected
         /\ (outcomes[i] = "image" /\ attempts[i].source # "osm_standard_fallback")
              => /\ i = Len(attempts)
                 /\ fresult.status = "returned"
                 /\ fresult.source = attempts[i].source
                 /\ fresult.zoom = attempts[i].zoom
    /\ (fresult.status = "returned" /\ fresult.source # "osm_standard_fallback")
         => /\ Len(outcomes) = Len(attempts)
            /\ Last(outcomes) = "image"
            /\ ~fresult.img.placeholder
            /\ fresult.source = "google_static_maps" \/ st.tiles_downloaded > 0

\* C1 witness: Bing's image is returned after four Esri zooms and Google were
\* rejected.
C1_Witness ==
    /\ fresult.status = "returned"
    /\ fresult.source = "bing_aerial"
    /\ Len(attempts) = 6

\* C2: the call fails iff the OSM tier was reached (everything before it was
\* rejected) and its stitch got zero tiles; an OSM stitch with at least one
\* tile is returned as 'osm_standard_fallback', placeholder or not.
C2_FailureOnlyFromOsm ==
    LET L == ProviderList(initial_zoom, google_api_key) IN
    /\ fpc # "done" => fresult.status = "none"
    /\ fpc = "done" => fresult.status \in {"returned", "raised"}
    /\ fresult.status = "raised"
         <=> /\ fpc = "done"
             /\ attempts = L
             /\ \A i \in 1..(Len(L) - 1) : outcomes[i] \in Rejected
             /\ st.provider = "osm_standard_fallback"
             /\ Cardinality(st.requested \ st.failed) = 0
    /\ (fpc = "done" /\ st.provider = "osm_standard_fallback"
          /\ Cardinality(st.requested \ st.failed) > 0)
         => /\ fresult.status = "returned"
            /\ fresult.source = "osm_standard_fallback"
            /\ fresult.img.placeholder = (Last(outcomes) = "placeholder")

\* C2 witness: every tier including Google was tried and the OSM stitch got no
\* tile, so the failure reaches the caller.
C2_Witness ==
    /\ fresult.status = "raised"
    /\ Len(attempts) = 7

\* C2, second case reached: a placeholder OSM crop is returned all the same.
C2_OsmPlaceholderReturned ==
    /\ fresult.status = "returned"
    /\ fresult.source = "osm_standard_fallback"
    /\ fresult.img.placeholder

\* C3: in a 3x3 stitch a failed tile fetch aborts nothing: every in-range tile
\* of the loop so far was requested, each fetched tile sits at
\* ((dx+1)*256, (dy+1)*256) and nowhere else, and the finished stitch raised
\* iff no in-range tile was fetched.
C3_TileFailureIsLocal ==
    st.provider # "none" =>
      LET done == {TileAt(k) : k \in 0..(st.idx - 1)}
          good == st.requested \ st.failed IN
      /\ st.requested = {d \in done : InRange(loc, st.zoom, d)}
      /\ st.failed \subseteq st.requested
      /\ st.tiles_downloaded = Cardinality(good)
      /\ \A c \in GridCells :
           st.canvas[c] = "tile"
             <=> \E d \in good : c = <<(d[1] + 1) * 256, (d[2] + 1) * 256>>
      /\ (fpc # "stitch" /\ Len(outcomes) = Len(attempts)
            /\ Last(attempts).source = st.provider)
           => /\ st.idx = NTiles
              /\ (Last(outcomes) = "raise" <=> Cardinality(good) = 0)

\* C3 witness: a finished stitch whose first tile failed and whose last tile
\* was still fetched and pasted at (512, 512).
C3_Witness ==
    /\ st.provider # "none"
    /\ st.idx = NTiles
    /\ <<-1, -1>> \in st.failed
    /\ st.canvas[<<512, 512>>] = "tile"
    /\ st.tiles_downloaded = 1

\* C11: for every sub-tile offset and requested size, the crop window of the
\* Esri, Bing and OSM stitchers lies inside the 768x768 canvas: 0 <= left,
\* 0 <= top, left + size <= 768, top + size <= 768.
C11_CropInsideCanvas ==
    cpc = "done" =>
      /\ 0 <= crop_out.left
      /\ 0 <= crop_out.top
      /\ crop_out.left + crop_in.size <= 768
      /\ crop_out.top + crop_in.size <= 768
      /\ crop_out.right = crop_out.left + crop_in.size
      /\ crop_out.bottom = crop_out.top + crop_in.size

\* C11 for the sizes a 768x768 canvas can hold: there the window is inside.
C11_HoldsUpToCanvasSize ==
    (cpc = "done" /\ crop_in.size <= 768) => C11_CropInsideCanvas

\* C11, the clamp at work on a size that fits: offset 255 at size 640 would
\* put the window's right edge at 1023, and it is pulled back to 768.
C11_ClampedWindow ==
    /\ cpc = "done"
    /\ crop_in.size = 640
    /\ crop_in.offset_x = 255
    /\ crop_out.right = 768

\* The target's pixel on the canvas along one axis: the corner of the centre
\* tile (256) plus the sub-tile offset.
TargetOnCanvas(g) == 256 + tile_offset(g, st.zoom)

\* A size-wide window centred on canvas pixel t fits inside the canvas.
WindowFits(t, size) == t - (size \div 2) >= 0 /\ t + (size \div 2) <= 768

\* C12: the crop a stitch returns is centred on the target point: the
\* target's canvas pixel (256 + offset on each axis) is at crop pixel
\* (size/2, size/2) whenever a size x size window centred there fits inside
\* the canvas.
C12_CropCentredOnTarget ==
    (fresult.status = "returned" /\ fresult.source # "google_static_maps") =>
      LET size == fresult.img.size
          tx == TargetOnCanvas(loc[1])
          ty == TargetOnCanvas(loc[2]) IN
      (WindowFits(tx, size) /\ WindowFits(ty, size))
        => /\ tx - fresult.img.left = size \div 2
           /\ ty - fresult.img.top = size \div 2

\* C12 as the code has it: the window is centred on the canvas centre plus
\* the offset (384 + offset), which is 128 pixels past the target, and is
\* then pulled back inside the canvas.
C12_CentredOnCanvasCentrePlusOffset ==
    (fresult.status = "returned" /\ fresult.source # "google_static_maps") =>
      LET size == fresult.img.size
          cx == 384 + tile_offset(loc[1], st.zoom)
          cy == 384 + tile_offset(loc[2], st.zoom) IN
      /\ WindowFits(cx, size) => cx - fresult.img.left = size \div 2
      /\ WindowFits(cy, size) => cy - fresult.img.top = size \div 2
      /\ fresult.img.left \in 0..(768 - size)
      /\ fresult.img.top \in 0..(768 - size)

\* C14: on every successful return (Esri, Google, Bing, OSM) the zoom in the
\* returned metadata is the zoom of the provider request that produced the
\* image; the initial zoom lies in [0, 18], so the caps min(zoom, 20),
\* min(zoom, 19) and min(initial_zoom, 18) change nothing.
C14_RecordedZoomIsUsedZoom ==
    fresult.status = "returned" =>
      /\ Last(attempts).source = fresult.source
      /\ Last(attempts).zoom = fresult.zoom
      /\ fresult.source # "google_static_maps" => st.zoom = fresult.zoom
      /\ fresult.source # "esri_world_imagery" => fresult.zoom = initial_zoom

\* C14 witness: an OSM image returned at initial zoom 18, where the cap
\* min(initial_zoom, 18) sits exactly at the clamp.
C14_Witness ==
    /\ fresult.status = "returned"
    /\ fresult.source = "osm_standard_fallback"
    /\ initial_zoom = 18
    /\ st.zoom = 18
    /\ fresult.zoom = 18

\* C14, the other providers reached: Google and Bing return at zoom 18, Esri
\* returns at a zoom below the initial one.
C14_GoogleReturned ==
    fresult.status = "returned" /\ fresult.source = "google_static_maps"
      /\ fresult.zoom = 18
C14_EsriReturnedBelowInitial ==
    fresult.status = "returned" /\ fresult.source = "esri_world_imagery"
      /\ fresult.zoom < initial_zoom

(***************************************************************************)
(* Properties of the quantifier                                            *)
(***************************************************************************)

\* Pixels of detection i's raster inside the buffer circle: centre
\* (w div 2, h div 2), radius radius_m / meters_per_pixel = w / 2 pixels.
InBuffer(i) ==
    LET w == q_in.image_size_px[1]
        h == q_in.image_size_px[2]
    IN  Cardinality({p \in DetectionMask(q_in.detections[i], w, h) :
            (p[1] - (w \div 2)) * (p[1] - (w \div 2))
              + (p[2] - (h \div 2)) * (p[2] - (h \div 2))
                <= (w \div 2) * (w \div 2)})

RawSize(i) ==
    Cardinality(DetectionMask(q_in.detections[i], q_in.image_size_px[1],
                              q_in.image_size_px[2]))

DetIdx == 1..Len(q_in.detections)

\* C6: the area is never negative; it is 0 exactly when no detection has a
\* pixel inside the buffer circle, and then the result is (0.0, 0, None);
\* otherwise the area is strictly positive.
C6_AreaZeroIffNoOverlap ==
    qpc = "done" =>
      /\ q_out.area_m2 >= 0
      /\ (q_out.area_m2 = 0 <=> \A i \in DetIdx : InBuffer(i) = 0)
      /\ (\A i \in DetIdx : InBuffer(i) = 0)
           => /\ q_out.mask_pixels = 0
              /\ ~q_out.selected_mask.present
      /\ (\E i \in DetIdx : InBuffer(i) > 0) => q_out.area_m2 > 0

\* C6 witness: two detections with non-empty rasters, both entirely outside
\* the circle, quantified to zero area.
C6_Witness ==
    /\ qpc = "done"
    /\ Len(q_in.detections) = 2
    /\ \A i \in DetIdx : RawSize(i) > 0 /\ InBuffer(i) = 0
    /\ q_out.area_m2 = 0

\* C7: the selected detection has the largest pixel count inside the buffer
\* circle, whatever the raw sizes; among equals the first of the list wins.
\* (best_idx is the loop's 0-based index of the selection.)
C7_LargestOverlapFirstWins ==
    (qpc = "done" /\ q_out.selected_mask.present) =>
      LET k == q_out.best_idx + 1 IN
      /\ k \in DetIdx
      /\ \A j \in DetIdx : InBuffer(j) <= InBuffer(k)
      /\ \A j \in DetIdx : j < k => InBuffer(j) < InBuffer(k)
      /\ q_out.selected_mask.px
           = DetectionMask(q_in.detections[k], q_in.image_size_px[1],
                           q_in.image_size_px[2])

\* C7 witness: two different rasters with the same positive overlap; the
\* first is selected.
C7_Witness ==
    /\ qpc = "done"
    /\ Len(q_in.detections) = 2
    /\ InBuffer(1) = InBuffer(2)
    /\ InBuffer(1) > 0
    /\ RawSize(1) # RawSize(2)
    /\ q_out.best_idx = 0

\* C7, raw size plays no part: the selected raster is the smaller one.
C7_SmallerMaskSelected ==
    /\ qpc = "done"
    /\ Len(q_in.detections) = 2
    /\ q_out.best_idx = 1
    /\ RawSize(2) < RawSize(1)

\* C8: with a detection selected, mask_pixels counts all true pixels of that
\* detection's raster, selected_mask is that raster, and
\* area_m2 = mask_pixels * (2 * radius_m / width)^2.
C8_AreaFromWholeMask ==
    (qpc = "done" /\ q_out.selected_mask.present) =>
      LET k == q_out.best_idx + 1
          w == q_in.image_size_px[1]
          h == q_in.image_size_px[2]
          own == DetectionMask(q_in.detections[k], w, h) IN
      /\ q_out.mask_pixels = Cardinality(own)
      /\ q_out.selected_mask.px = own
      /\ q_out.area_m2
           = q_out.mask_pixels
               * (((2 * q_in.radius_m) * (2 * q_in.radius_m)) \div (w * w))

\* C8 witness: the selected raster has pixels outside the circle, and they are
\* counted; another detection with a different raster is present.
C8_Witness ==
    /\ qpc = "done"
    /\ Len(q_in.detections) = 2
    /\ q_out.selected_mask.present
    /\ q_out.mask_pixels > InBuffer(q_out.best_idx + 1)
    /\ RawSize(1) # RawSize(2)
    /\ q_out.area_m2 > 0

\* Detection i has no segmentation mask, so its raster comes from its box.
BoxOnly(i) == ~q_in.detections[i].mask.present

\* Pixel p lies in the closed rectangle of the box and inside the w x h image.
InBoxAndImage(p, box, w, h) ==
    /\ box[1] <= p[1] /\ p[1] <= box[3]
    /\ box[2] <= p[2] /\ p[2] <= box[4]
    /\ 0 <= p[1] /\ p[1] < w
    /\ 0 <= p[2] /\ p[2] < h

\* The box has no pixel in common with the image.
OutsideImage(box, w, h) ==
    box[3] < 0 \/ box[4] < 0 \/ box[1] >= w \/ box[2] >= h

\* C13: the raster of a detection without a mask is the box's filled
\* rectangle clipped to the image: every true pixel (x, y) has x1 <= x <= x2,
\* y1 <= y <= y2 and lies inside the image; a box entirely outside the image
\* (x2 < 0 or y2 < 0, for example) gives an empty raster, has zero overlap and
\* is never the selected detection.
C13_BoxRasterIsClippedRectangle ==
    qpc = "done" =>
      LET w == q_in.image_size_px[1]
          h == q_in.image_size_px[2] IN
      \A i \in DetIdx :
        BoxOnly(i) =>
          LET box == q_in.detections[i].box
              m == DetectionMask(q_in.detections[i], w, h) IN
          /\ \A p \in m : InBoxAndImage(p, box, w, h)
          /\ OutsideImage(box, w, h)
                => /\ m = {}
                   /\ InBuffer(i) = 0
                   /\ q_out.best_idx # i - 1

\* C13 for boxes whose far corner is not negative (x2 >= 0 and y2 >= 0): there
\* the statement holds.
C13_HoldsForNonNegativeFarCorner ==
    (\A i \in DetIdx : BoxOnly(i) =>
        (q_in.detections[i].box[3] >= 0 /\ q_in.detections[i].box[4] >= 0))
      => C13_BoxRasterIsClippedRectangle

\* C13, the holding case reached: a box reaching past the far edge of the
\* image is clipped to it and selected.
C13_ClippedAtFarEdge ==
    /\ qpc = "done"
    /\ Len(q_in.detections) = 1
    /\ BoxOnly(1)
    /\ q_in.detections[1].box[3] > q_in.image_size_px[1]
    /\ q_in.detections[1].box[1] > 0
    /\ q_out.best_idx = 0

\* C13, the failing case reached: a box with x2 < 0 and y2 < 0 is the selected
\* detection, with a positive area.
C13_OutsideBoxSelected ==
    /\ qpc = "done"
    /\ Len(q_in.detections) = 1
    /\ BoxOnly(1)
    /\ q_in.detections[1].box[3] < 0
    /\ q_in.detections[1].box[4] < 0
    /\ q_out.best_idx = 0
    /\ q_out.area_m2 > 0

(***************************************************************************)
(* Properties of the QC decision                                           *)
(***************************************************************************)

ReasonOrder == <<"low_resolution", "low_brightness", "cloud_or_shadow",
                 "no_detection">>

SeqRange(q) == {q[i] : i \in 1..Len(q)}

InReasons(r) == r \in SeqRange(qc_out.reasons)

\* C9: every check is evaluated; the reasons are those of the failed checks,
\* in the order resolution, brightness, cloud/shadow, detection, each at most
\* once; low_resolution iff w or h is below 300, no_detection iff the
\* detection list is empty; VERIFIABLE iff there is no reason.
C9_ReasonsAndStatus ==
    qcpc = "done" =>
      LET im == qc_in.image_pil
          n == Len(im.lum)
          mean_ok == SumSeq(im.lum) >= 20 * n
          bright == Cardinality({i \in 1..n : im.lum[i] > 220})
          dark == Cardinality({i \in 1..n : im.lum[i] < 40}) IN
      /\ qc_out.reasons = SelectSeq(ReasonOrder, InReasons)
      /\ InReasons("low_resolution") <=> (im.size[1] < 300 \/ im.size[2] < 300)
      /\ InReasons("low_brightness") <=> ~mean_ok
      /\ InReasons("cloud_or_shadow") <=> (bright * 10 > 4 * n \/ dark * 10 > 4 * n)
      /\ InReasons("no_detection") <=> qc_in.detections = <<>>
      /\ qc_out.status \in {"VERIFIABLE", "NOT_VERIFIABLE"}
      /\ qc_out.status = "VERIFIABLE" <=> qc_out.reasons = <<>>

\* C9 witness: all four checks fail on one input and all four reasons are
\* returned.
C9_Witness ==
    /\ qcpc = "done"
    /\ qc_out.reasons = ReasonOrder
    /\ qc_out.status = "NOT_VERIFIABLE"

(***************************************************************************)
(* Properties of process_row and run_inference_on_excel                    *)
(***************************************************************************)

IsRecord(entry) == "has_solar" \in DOMAIN entry
IsError(entry) == "error" \in DOMAIN entry

\* The row's process_row call reached its secondary fetch.
SecondaryHappened(g) == g.phase = "secondary" \/ g.secondary_n >= 0

\* C4: process_row makes the secondary (2400 sqft) attempt iff the primary
\* attempt returned zero detections, and makes it before the record is built;
\* if the secondary also returns zero detections the record has
\* has_solar = false and 'no_detection' among its qc_reasons.
C4_SecondaryIffNoPrimaryDetection ==
    /\ Len(rowlog) = Len(results)
    /\ \A i \in 1..Len(rowlog) :
         /\ SecondaryHappened(rowlog[i]) <=> rowlog[i].primary_n = 0
         /\ IsRecord(results[i])
              => /\ rowlog[i].primary_n = 0 => rowlog[i].secondary_n >= 0
                 /\ (rowlog[i].primary_n = 0 /\ rowlog[i].secondary_n = 0)
                      => /\ ~results[i].has_solar
                         /\ "no_detection" \in SeqRange(results[i].qc_reasons)
    /\ row # <<>> =>
         /\ row.pc = "secondary" => row.primary_n = 0
         /\ row.pc = "record" => (row.primary_n = 0 <=> row.secondary_n >= 0)
         /\ (row.pc = "record" /\ row.primary_n = 0 /\ row.secondary_n = 0)
              => /\ ~has_solar_of(row.area_m2)
                 /\ "no_detection" \in SeqRange(row.qc.reasons)

\* C4 witness: a record built after both attempts returned no detection.
C4_Witness ==
    \E i \in 1..Len(results) :
      /\ IsRecord(results[i])
      /\ rowlog[i].primary_n = 0
      /\ rowlog[i].secondary_n = 0
      /\ ~results[i].has_solar
      /\ results[i].buffer_radius_sqft = 1200

\* process_row has fetched and detected and is about to build its record.
AtRecord ==
    bpc = "loop" /\ row.pc = "record" /\ IntConvertible(table[row.idx].sample_id)

\* The attempt the record has to come from: the secondary one when the primary
\* had zero detections and the secondary at least one, else the primary.
SecondaryUsed(r) ==
    r.att1.detections = <<>> /\ r.att2.called /\ r.att2.detections # <<>>
UsedAttempt(r) == IF SecondaryUsed(r) THEN r.att2 ELSE r.att1
UsedSqft(r) == IF SecondaryUsed(r) THEN 2400 ELSE 1200

\* C15: every record is built from a single attempt: buffer_radius_sqft,
\* image_metadata, qc_status/qc_reasons, confidence and pv_area_sqm_est all
\* come from the secondary attempt (image, detections, radius of the 2400 sqft
\* fetch) when the primary attempt had zero detections and the secondary had at
\* least one, and all from the primary attempt otherwise.
C15_RecordFromOneAttempt ==
    AtRecord =>
      LET rec == RecordOf(table[row.idx], row)
          u == UsedAttempt(row)
          sqft == UsedSqft(row)
          verdict == qc_decision(u.img, u.detections)
          q == compute_selected_panel_area(u.detections, u.img.size,
                                           sqft_to_radius_meters(sqft)) IN
      /\ row.att1.called
      /\ rec.buffer_radius_sqft = sqft
      /\ rec.image_metadata = u.metadata
      /\ rec.qc_status = verdict.status
      /\ rec.qc_reasons = verdict.reasons
      /\ rec.confidence = MaxConf(u.detections)
      /\ rec.pv_area_sqm_est = round3(q.area_m2)
      /\ u.radius_m = sqft_to_radius_meters(sqft)

\* C15 witness: the primary attempt found nothing, the secondary attempt on a
\* different image from a different provider found a panel, and the record
\* carries the secondary's metadata and buffer and a QC verdict that the
\* primary image would not have got.
C15_Witness ==
    /\ AtRecord
    /\ row.att1.detections = <<>>
    /\ row.att2.detections # <<>>
    /\ row.att1.img # row.att2.img
    /\ row.att1.metadata.source # row.att2.metadata.source
    /\ RecordOf(table[row.idx], row).image_metadata = row.att2.metadata
    /\ RecordOf(table[row.idx], row).buffer_radius_sqft = 2400
    /\ RecordOf(table[row.idx], row).qc_reasons
         # qc_decision(row.att1.img, row.att2.detections).reasons

\* C15, the other side reached: both attempts found nothing, on different
\* images, and the record is the primary's.
C15_BothEmptyKeepsPrimary ==
    /\ AtRecord
    /\ row.att1.detections = <<>>
    /\ row.att2.called
    /\ row.att2.detections = <<>>
    /\ row.att1.metadata # row.att2.metadata
    /\ RecordOf(table[row.idx], row).image_metadata = row.att1.metadata
    /\ RecordOf(table[row.idx], row).buffer_radius_sqft = 1200

\* Detection d has a pixel of its raster inside the buffer circle of the
\* image: centre (w div 2, h div 2), radius w div 2.
TouchesBuffer(d, size) ==
    \E p \in DetectionMask(d, size[1], size[2]) :
      (p[1] - (size[1] \div 2)) * (p[1] - (size[1] \div 2))
        + (p[2] - (size[2] \div 2)) * (p[2] - (size[2] \div 2))
          <= (size[1] \div 2) * (size[1] \div 2)

AnyTouchesBuffer(u) ==
    \E k \in 1..Len(u.detections) : TouchesBuffer(u.detections[k], u.img.size)

\* C16: bbox_or_mask is null exactly when both attempts returned zero
\* detections, 'bbox' exactly when the used attempt had detections but none
\* overlaps the buffer circle, and 'mask' exactly when a detection was
\* selected, with or without a segmentation mask of its own.
C16_BboxOrMaskField ==
    AtRecord =>
      LET rec == RecordOf(table[row.idx], row)
          u == UsedAttempt(row) IN
      /\ rec.bbox_or_mask \in {"None", "bbox", "mask"}
      /\ rec.bbox_or_mask = "None"
           <=> (row.att1.detections = <<>> /\ row.att2.called
                  /\ row.att2.detections = <<>>)
      /\ rec.bbox_or_mask = "bbox"
           <=> (u.detections # <<>> /\ ~AnyTouchesBuffer(u))
      /\ rec.bbox_or_mask = "mask" <=> AnyTouchesBuffer(u)

\* C16 witness: the record says 'mask' although the only detection is a box
\* without a segmentation mask.
C16_Witness ==
    /\ AtRecord
    /\ RecordOf(table[row.idx], row).bbox_or_mask = "mask"
    /\ Len(UsedAttempt(row).detections) = 1
    /\ ~UsedAttempt(row).detections[1].mask.present

\* C16, the other values reached: 'mask' for a detection with a segmentation
\* mask, 'bbox' for a secondary attempt whose only box misses the circle, and
\* null after two empty attempts.
C16_MaskFromSegmentation ==
    /\ AtRecord
    /\ RecordOf(table[row.idx], row).bbox_or_mask = "mask"
    /\ UsedAttempt(row).detections[1].mask.present
C16_BboxReached ==
    /\ AtRecord
    /\ SecondaryUsed(row)
    /\ RecordOf(table[row.idx], row).bbox_or_mask = "bbox"
C16_NullReached ==
    /\ AtRecord
    /\ row.att2.called
    /\ RecordOf(table[row.idx], row).bbox_or_mask = "None"

\* C5: the batch never stops at a failing location: every row yields exactly
\* one entry, in input order (a record, or an error entry with sample_id, lat,
\* lon, error), and predictions.json with all N entries is written after the
\* last row.
C5_BatchNeverStops ==
    /\ bpc # "aborted"
    /\ bpc = "loop" => Len(results) = row.idx - 1
    /\ \A i \in 1..Len(results) :
         /\ IsRecord(results[i]) \/ IsError(results[i])
         /\ results[i].sample_id = table[i].sample_id.val
         /\ results[i].lat = table[i].lat
         /\ results[i].lon = table[i].lon
    /\ bpc = "done"
         => /\ Len(results) = Len(table)
            /\ predictions = [written |-> TRUE, content |-> results]

\* C5 restricted to files whose sample_id values all convert to int: there the
\* statement holds.
C5_HoldsForIntConvertibleIds ==
    (\A i \in 1..Len(table) : IntConvertible(table[i].sample_id))
      => C5_BatchNeverStops

\* C5, the restricted case reached: a finished batch of MaxRows rows holding an
\* error entry followed by a record.
C5_ErrorThenRecord ==
    /\ bpc = "done"
    /\ Len(results) = MaxRows
    /\ IsError(results[1])
    /\ IsRecord(results[Len(results)])

\* C10: in every record has_solar is true iff the record's pv_area_sqm_est
\* (the area rounded to 3 decimals, here in thousandths of a m^2) exceeds 0.1.
C10_HasSolarIffRoundedAreaAboveTenth ==
    \A i \in 1..Len(results) :
      IsRecord(results[i])
        => (results[i].has_solar <=> results[i].pv_area_sqm_est > 100)

\* C10 up to rounding: has_solar is decided on the unrounded area, so the
\* rounded field is at least 0.1 when it is true and at most 0.1 when false.
C10_RoundedAreaWithinRounding ==
    \A i \in 1..Len(results) :
      IsRecord(results[i])
        => /\ results[i].has_solar => results[i].pv_area_sqm_est >= 100
           /\ ~results[i].has_solar => results[i].pv_area_sqm_est <= 100

====
